---- MODULE Spec2Model ----
(***************************************************************************)
(* Model of llmblast (src/lib.rs): the batch dispatcher _call_llm_batch,   *)
(* the single-request caller _call_llm and the process-wide HTTP client    *)
(* behind a OnceLock.  One tokio task per prompt; the tasks run in         *)
(* parallel on the multi-thread runtime built by call_llm_batch.           *)
(***************************************************************************)
EXTENDS Naturals, Sequences, FiniteSets, TLC

\* ---------------------------------------------------------------- bounds
\* Largest batch (length of the prompt vector) explored.
MaxN == 2

\* Prompt strings a caller may pass (any string is accepted, the empty one too).
Prompts == {"", "hi"}

\* ------------------------------------------------------------- constants
API_OPENAI == "https://api.openai.com/v1/chat/completions"

\* enum Provider { OpenAI {model_name, api_key}, Anthropic {model_name, api_key} }
Provider ==
    [variant : {"OpenAI", "Anthropic"}, model_name : {"gpt"}, api_key : {"sk"}]

\* What the remote side does with the request of one prompt index:
\*   sendFail   send().await fails (connection, TLS, ...)
\*   textFail   the response arrives, reading its body (text().await) fails
\*   hang       the remote side never answers (no timeout is configured)
\*   notJson    a body that is not JSON
\*   noChoices  a JSON body without the "choices" key
\*   ok         an OpenAI-shaped body answering the prompt of the request
RemoteKinds == {"sendFail", "textFail", "hang", "notJson", "noChoices", "ok"}

\* -------------------------------------------------------- serde_json::Value
JString(s) == [ty |-> "string", val |-> s]
JNumber(n) == [ty |-> "number", val |-> n]
JArray(seq) == [ty |-> "array", val |-> seq]
JObject(fields) == [ty |-> "object", val |-> fields]
JNull == [ty |-> "null", val |-> 0]

\* Option<T>: None is the empty sequence, Some(x) the one-element sequence.
None == << >>
Some(x) == << x >>

\* Value::get with a string key: Some(member) of an object that has the key.
get_key(value, key) ==
    IF value.ty = "object" /\ key \in DOMAIN value.val
    THEN Some(value.val[key])
    ELSE None

\* Variant of get_index that takes the index as 1-based.
get_index_one_based(value, idx) ==
    IF value.ty = "array" /\ 1 <= idx /\ idx <= Len(value.val)
    THEN Some(value.val[idx])
    ELSE None

\* Value::get with an integer index (0-based): Some(element) of an array
\* that is long enough.
get_index(value, idx) ==
    IF value.ty = "array" /\ idx + 1 <= Len(value.val)
    THEN Some(value.val[idx + 1])
    ELSE None

\* Value::as_str: Some(s) of a JSON string.
as_str(value) ==
    IF value.ty = "string" THEN Some(value.val) ELSE None

\* Option::and_then for the two getters and as_str.
and_then_key(opt, key) == IF opt = None THEN None ELSE get_key(opt[1], key)
and_then_index(opt, idx) == IF opt = None THEN None ELSE get_index(opt[1], idx)
and_then_as_str(opt) == IF opt = None THEN None ELSE as_str(opt[1])

\* ------------------------------------------------------------ error values
\* An anyhow::Error: its kind and the prompt index of the call it arose in
\* (origin identifies the error object; two calls never share one).
Error(kind, origin) == [kind |-> kind, origin |-> origin]
NoError == Error("", 0)

\* Output of a JoinHandle<anyhow::Result<String>>:
\*   Ok(Ok(s)), Ok(Err(e)) or Err(JoinError); Pending while the task runs.
Pending == [t |-> "Pending", v |-> "", e |-> NoError]
OkOk(s) == [t |-> "OkOk", v |-> s, e |-> NoError]
OkErr(e) == [t |-> "OkErr", v |-> "", e |-> e]
JoinErr(i) == [t |-> "JoinErr", v |-> "", e |-> Error("panic", i)]

\* anyhow::Result<Vec<String>> of _call_llm_batch; NotReturned before it returns.
NotReturned == [t |-> "NotReturned", v |-> << >>, e |-> NoError]
RetOk(v) == [t |-> "Ok", v |-> v, e |-> NoError]
RetErr(e) == [t |-> "Err", v |-> << >>, e |-> e]

\* ----------------------------------------------------------- _call_llm
\* Variant of headers that takes the model from the wrong field of the provider.
headers_wrong_field(prompt, provider) ==
    [model |-> provider.api_key,
     temperature |-> 0,
     messages |-> << [role |-> "user", content |-> prompt] >>]

\* The JSON payload built for the OpenAI variant (named `headers` in the code).
headers(prompt, provider) ==
    [model |-> provider.model_name,
     temperature |-> 0,
     messages |-> << [role |-> "user", content |-> prompt] >>]

\* The POST handed to the transport by .post().header().header().json().send().
Request(prompt, provider) ==
    [url |-> API_OPENAI,
     content_type |-> "application/json",
     authorization |-> "Bearer " \o provider.api_key,
     json |-> headers(prompt, provider)]

\* Variant of match_provider in which the Anthropic arm builds the OpenAI
\* request instead of panicking.
match_provider_always(prompt, provider) == Some(Request(prompt, provider))

\* The match on the provider that opens _call_llm: Some(request) for OpenAI;
\* None for Anthropic, whose arm is unimplemented!() and panics.
match_provider(prompt, provider) ==
    IF provider.variant = "OpenAI"
    THEN Some(Request(prompt, provider))
    ELSE None

\* The text a well-behaved remote model generates for a request: it depends
\* on the prompt carried by the request and on nothing else.
Answer(request) == "re:" \o request.json.messages[1].content

\* JSON documents a remote side may answer with, besides noChoices and ok:
\*   hello          {"choices":[{"message":{"content":"hello"}}]}
\*   emptyChoices   {"choices":[]}
\*   choicesObject  {"choices":{"0":{"message":{"content":"x"}}}}
\*   choiceString   {"choices":["x"]}
\*   noMessage      {"choices":[{"index":0}]}
\*   messageString  {"choices":[{"message":"x"}]}
\*   messageArray   {"choices":[{"message":[{"content":"x"}]}]}
\*   noContent      {"choices":[{"message":{"role":"assistant"}}]}
\*   contentNull    {"choices":[{"message":{"role":"assistant","content":null}}]}
\*   contentNumber  {"choices":[{"message":{"content":5}}]}
\*   secondChoice   {"choices":[{"message":{}},{"message":{"content":"late"}}]}
\*   topArray       [{"choices":[{"message":{"content":"x"}}]}]
\*   topString      "hello"
JsonKinds ==
    {"noChoices", "ok", "hello", "emptyChoices", "choicesObject", "choiceString",
     "noMessage", "messageString", "messageArray", "noContent", "contentNull",
     "contentNumber", "secondChoice", "topArray", "topString"}

\* {"choices":[{"message":{"content": c}}]} for a JSON value c.
Completion(c) ==
    JObject([choices |-> JArray(<< JObject([message |-> JObject([content |-> c])]) >>)])

\* The JSON value of the body the remote side returns, by remote kind.
JsonBody(kind, request) ==
    CASE kind = "noChoices" ->
           JObject([error |-> JObject([message |-> JString("quota")])])
      [] kind = "hello" -> Completion(JString("hello"))
      [] kind = "emptyChoices" -> JObject([choices |-> JArray(<< >>)])
      [] kind = "choicesObject" ->
           JObject([choices |-> JObject(
               "0" :> JObject([message |-> JObject([content |-> JString("x")])]))])
      [] kind = "choiceString" -> JObject([choices |-> JArray(<< JString("x") >>)])
      [] kind = "noMessage" ->
           JObject([choices |-> JArray(<< JObject([index |-> JNumber(0)]) >>)])
      [] kind = "messageString" ->
           JObject([choices |-> JArray(<< JObject([message |-> JString("x")]) >>)])
      [] kind = "messageArray" ->
           JObject([choices |-> JArray(<< JObject(
               [message |-> JArray(<< JObject([content |-> JString("x")]) >>)]) >>)])
      [] kind = "noContent" ->
           JObject([choices |-> JArray(<< JObject(
               [message |-> JObject([role |-> JString("assistant")])]) >>)])
      [] kind = "contentNull" ->
           JObject([choices |-> JArray(<< JObject(
               [message |-> JObject(
                   [role |-> JString("assistant"), content |-> JNull])]) >>)])
      [] kind = "contentNumber" -> Completion(JNumber(5))
      [] kind = "secondChoice" ->
           JObject([choices |-> JArray(
               << JObject([message |-> JObject([role |-> JString("assistant")])]),
                  JObject([message |-> JObject([content |-> JString("late")])]) >>)])
      [] kind = "topArray" -> JArray(<< Completion(JString("x")) >>)
      [] kind = "topString" -> JString("hello")
      [] OTHER ->
           JObject(
              [id |-> JString("cmpl"),
               choices |-> JArray(<< JObject(
                   [index |-> JNumber(0),
                    message |-> JObject(
                        [role |-> JString("assistant"),
                         content |-> JString(Answer(request))])]) >>)])

\* The body the remote side returns for a request, by remote kind.  A body is
\* either text that is not JSON or the text of a JSON value.
ResponseBody(kind, request) ==
    IF kind = "notJson"
    THEN [is_json |-> FALSE, value |-> JString("<html>502</html>")]
    ELSE [is_json |-> TRUE, value |-> JsonBody(kind, request)]

\* serde_json::from_str: Some(value) of a JSON text, None (a decode error)
\* of any other text.
from_str(body) == IF body.is_json THEN Some(body.value) ELSE None

\* The OpenAI extraction path choices[0].message.content, as_str.
extract_openai(json_response) ==
    and_then_as_str(
        and_then_key(
            and_then_key(
                and_then_index(get_key(json_response, "choices"), 0),
                "message"),
            "content"))

\* The Anthropic extraction path content[0].text, as_str.
extract_anthropic(json_response) ==
    and_then_as_str(
        and_then_key(
            and_then_index(get_key(json_response, "content"), 0),
            "text"))

\* Variant of parse_and_extract that does not stop at a decode error: the
\* extraction runs on a default value and reports its own failure.
parse_and_extract_no_stop(body, provider, i) ==
    LET json_response == IF from_str(body) = None THEN JNull ELSE from_str(body)[1]
        content == IF provider.variant = "OpenAI"
                   THEN extract_openai(json_response)
                   ELSE extract_anthropic(json_response)
    IN  IF content = None
        THEN OkErr(Error("extraction", i))
        ELSE OkOk(content[1])

\* Lines 62-89 of _call_llm: parse the body, extract by provider variant.
parse_and_extract(body, provider, i) ==
    IF from_str(body) = None
    THEN OkErr(Error("decode", i))
    ELSE LET json_response == from_str(body)[1]
             content == IF provider.variant = "OpenAI"
                        THEN extract_openai(json_response)
                        ELSE extract_anthropic(json_response)
         IN  IF content = None
             THEN OkErr(Error("extraction", i))
             ELSE OkOk(content[1])

\* ------------------------------------------------------ get_http_client
\* static HTTP_CLIENT: OnceLock<reqwest::Client>.  state is "uninit", "running"
\* (one caller is inside the initializer) or "set"; client identifies the
\* instance stored (0 while there is none).
OnceLockEmpty == [state |-> "uninit", client |-> 0]
OnceLockRunning == [state |-> "running", client |-> 0]
OnceLockSet(c) == [state |-> "set", client |-> c]

\* Variant of get_or_init without the guard: a caller that finds the cell
\* not set runs the initializer even while another caller is running it.
get_or_init_racy(cell) == IF cell.state = "set" THEN "have" ELSE "init"

\* OnceLock::get_or_init as seen by one caller: "have" when the cell is set,
\* "init" when the caller is to run the initializer, "wait" when another caller
\* is running it (the caller blocks until that one is through).
get_or_init(cell) ==
    IF cell.state = "set" THEN "have"
    ELSE IF cell.state = "uninit" THEN "init"
    ELSE "wait"

\* ------------------------------------------------------------------ state
VARIABLES
    prompts,          \* Vec<String> passed to _call_llm_batch
    provider,         \* Provider passed to _call_llm_batch
    remote,           \* what the remote side does for each prompt index
    HTTP_CLIENT,      \* the OnceLock cell
    clientBuilds,     \* reqwest clients constructed so far in the process
    dpc,              \* position of _call_llm_batch: spawn, join, fold, returned
    tasks,            \* Vec of join handles: the prompt index of each, in push order
    tpc,              \* position of each task
    requests,         \* per prompt index, the POSTs handed to the transport
    used,             \* per prompt index, the client instance the task obtained
    outcome,          \* per prompt index, the output of the task
    completionOrder,  \* prompt indexes in the order their tasks completed
    results,          \* the vector join_all resolved to
    consumed,         \* number of results the fold has taken
    responses,        \* the Vec<String> the fold is building
    ret               \* what _call_llm_batch returned

vars == << prompts, provider, remote, HTTP_CLIENT, clientBuilds, dpc, tasks, tpc,
           requests, used, outcome, completionOrder, results, consumed,
           responses, ret >>

env == << prompts, provider, remote >>
dispatcher == << dpc, tasks, results, consumed, responses, ret >>

N == Len(prompts)
Idx == 1..N

\* A process that has not built the client yet, or one in which an earlier
\* batch already did; the batch itself is about to enter _call_llm_batch.
Init ==
    /\ prompts \in UNION { [1..n -> Prompts] : n \in 0..MaxN }
    /\ provider \in Provider
    /\ remote \in [1..Len(prompts) -> RemoteKinds]
    /\ \E built \in BOOLEAN :
          /\ HTTP_CLIENT = IF built THEN OnceLockSet(1) ELSE OnceLockEmpty
          /\ clientBuilds = IF built THEN 1 ELSE 0
    /\ dpc = "spawn"
    /\ tasks = << >>
    /\ tpc = [i \in 1..Len(prompts) |-> "unspawned"]
    /\ requests = [i \in 1..Len(prompts) |-> << >>]
    /\ used = [i \in 1..Len(prompts) |-> 0]
    /\ outcome = [i \in 1..Len(prompts) |-> Pending]
    /\ completionOrder = << >>
    /\ results = << >>
    /\ consumed = 0
    /\ responses = << >>
    /\ ret = NotReturned

\* ------------------------------------------------------------ task steps
\* The task of prompt index i ends with output out.
Complete(i, out) ==
    /\ outcome' = [outcome EXCEPT ![i] = out]
    /\ tpc' = [tpc EXCEPT ![i] = "done"]
    /\ completionOrder' = Append(completionOrder, i)

\* .post(..).header(..).header(..).json(&headers).send(): the task hands one
\* POST to the transport through client instance c and awaits the response.
Send(i, c) ==
    /\ requests' = [requests EXCEPT
                        ![i] = Append(@, match_provider(prompts[i], provider)[1])]
    /\ used' = [used EXCEPT ![i] = c]
    /\ tpc' = [tpc EXCEPT ![i] = "sending"]
    /\ UNCHANGED << outcome, completionOrder >>

\* get_http_client() called by task i, up to the point where the task has the
\* client and sends, starts the initializer, or blocks on the cell.
GetClient(i) ==
    IF get_or_init(HTTP_CLIENT) = "have"
    THEN /\ Send(i, HTTP_CLIENT.client)
         /\ UNCHANGED << HTTP_CLIENT, clientBuilds >>
    ELSE IF get_or_init(HTTP_CLIENT) = "init"
    THEN /\ HTTP_CLIENT' = OnceLockRunning
         /\ tpc' = [tpc EXCEPT ![i] = "init"]
         /\ UNCHANGED << clientBuilds, requests, used, outcome, completionOrder >>
    ELSE /\ tpc' = [tpc EXCEPT ![i] = "blocked"]
         /\ UNCHANGED << HTTP_CLIENT, clientBuilds, requests, used, outcome,
                         completionOrder >>

\* First poll of the spawned task: _call_llm matches on the provider; the
\* Anthropic arm is unimplemented!() and panics, which ends the task with a
\* JoinError; the OpenAI arm builds the payload and goes to get_http_client.
TaskStart(i) ==
    /\ tpc[i] = "spawned"
    /\ IF match_provider(prompts[i], provider) = None
       THEN /\ Complete(i, JoinErr(i))
            /\ UNCHANGED << HTTP_CLIENT, clientBuilds, requests, used >>
       ELSE GetClient(i)
    /\ UNCHANGED << env, dispatcher >>

\* A task blocked in get_or_init goes on once no initializer is running.
ClientWake(i) ==
    /\ tpc[i] = "blocked"
    /\ get_or_init(HTTP_CLIENT) # "wait"
    /\ GetClient(i)
    /\ UNCHANGED << env, dispatcher >>

\* The initializer run by task i ends: Client::builder()..build() gives a
\* client, which is stored and used for the send, or fails, and .expect()
\* panics: the cell stays uninitialized and the task ends with a JoinError.
ClientBuilt(i) ==
    /\ tpc[i] = "init"
    /\ \E built \in BOOLEAN :
          IF built
          THEN /\ clientBuilds' = clientBuilds + 1
               /\ HTTP_CLIENT' = OnceLockSet(clientBuilds + 1)
               /\ Send(i, clientBuilds + 1)
          ELSE /\ HTTP_CLIENT' = OnceLockEmpty
               /\ Complete(i, JoinErr(i))
               /\ UNCHANGED << clientBuilds, requests, used >>
    /\ UNCHANGED << env, dispatcher >>

\* Variant of SendDone that sends the request again after a transport error.
SendDone_retry(i) ==
    /\ tpc[i] = "sending"
    /\ remote[i] # "hang"
    /\ IF remote[i] = "sendFail"
       THEN /\ requests' = [requests EXCEPT ![i] = Append(@, @[1])]
            /\ tpc' = [tpc EXCEPT ![i] = "text"]
       ELSE /\ tpc' = [tpc EXCEPT ![i] = "text"]
            /\ UNCHANGED requests
    /\ UNCHANGED << env, HTTP_CLIENT, clientBuilds, used, outcome, completionOrder,
                    dispatcher >>

\* Variant of SendDone with a request timeout: a remote side that hangs makes
\* send().await resolve to a transport error.
SendDone_timeout(i) ==
    /\ tpc[i] = "sending"
    /\ IF remote[i] \in {"sendFail", "hang"}
       THEN Complete(i, OkErr(Error("transport", i)))
       ELSE /\ tpc' = [tpc EXCEPT ![i] = "text"]
            /\ UNCHANGED << outcome, completionOrder >>
    /\ UNCHANGED << env, HTTP_CLIENT, clientBuilds, requests, used, dispatcher >>

\* send().await resolves: a transport error ends the call (the ? operator),
\* a response lets the task go on to read the body.  A remote side that
\* hangs never resolves it.
SendDone(i) ==
    /\ tpc[i] = "sending"
    /\ remote[i] # "hang"
    /\ IF remote[i] = "sendFail"
       THEN Complete(i, OkErr(Error("transport", i)))
       ELSE /\ tpc' = [tpc EXCEPT ![i] = "text"]
            /\ UNCHANGED << outcome, completionOrder >>
    /\ UNCHANGED << env, HTTP_CLIENT, clientBuilds, requests, used, dispatcher >>

\* text().await resolves: a transport error ends the call; otherwise the body
\* is parsed and the content extracted, which ends the call.
TextDone(i) ==
    /\ tpc[i] = "text"
    /\ IF remote[i] = "textFail"
       THEN Complete(i, OkErr(Error("transport", i)))
       ELSE Complete(i, parse_and_extract(
                ResponseBody(remote[i], requests[i][Len(requests[i])]),
                provider, i))
    /\ UNCHANGED << env, HTTP_CLIENT, clientBuilds, requests, used, dispatcher >>

tasksteps == << HTTP_CLIENT, clientBuilds, tpc, requests, used, outcome,
                completionOrder >>

\* ------------------------------------------------------- _call_llm_batch
\* Variant of Spawn with a concurrency cap of one: the next task is spawned
\* only after every task spawned so far has completed.
Spawn_capped ==
    /\ dpc = "spawn"
    /\ Len(tasks) < N
    /\ \A k \in 1..Len(tasks) : tpc[tasks[k]] = "done"
    /\ tasks' = Append(tasks, Len(tasks) + 1)
    /\ tpc' = [tpc EXCEPT ![Len(tasks) + 1] = "spawned"]
    /\ UNCHANGED << env, HTTP_CLIENT, clientBuilds, requests, used, outcome,
                    completionOrder, dpc, results, consumed, responses, ret >>

\* One iteration of `for prompt in &prompts`: spawn the task of the next
\* prompt and push its handle.
Spawn ==
    /\ dpc = "spawn"
    /\ Len(tasks) < N
    /\ tasks' = Append(tasks, Len(tasks) + 1)
    /\ tpc' = [tpc EXCEPT ![Len(tasks) + 1] = "spawned"]
    /\ UNCHANGED << env, HTTP_CLIENT, clientBuilds, requests, used, outcome,
                    completionOrder, dpc, results, consumed, responses, ret >>

\* The loop is over: the dispatcher awaits join_all(tasks).
AwaitJoin ==
    /\ dpc = "spawn"
    /\ Len(tasks) = N
    /\ dpc' = "join"
    /\ UNCHANGED << env, tasksteps, tasks, results, consumed, responses, ret >>

\* Variant of join_ready that is ready as soon as one handle has an output.
join_ready_any(handles, pcs) == \E k \in 1..Len(handles) : pcs[handles[k]] = "done"

\* join_all is ready when every handle it was given has an output.
join_ready(handles, pcs) == \A k \in 1..Len(handles) : pcs[handles[k]] = "done"

\* Variant of join_all that yields the outputs in the order of completion.
join_all_by_completion(handles, outputs, order) ==
    [k \in 1..Len(order) |-> outputs[order[k]]]

\* join_all resolves to the outputs of the handles, in the order of the handles.
join_all(handles, outputs, order) ==
    [k \in 1..Len(handles) |-> outputs[handles[k]]]

JoinAll ==
    /\ dpc = "join"
    /\ join_ready(tasks, tpc)
    /\ results' = join_all(tasks, outcome, completionOrder)
    /\ dpc' = "fold"
    /\ UNCHANGED << env, tasksteps, tasks, consumed, responses, ret >>

\* Ok(Ok(response)) => responses.push(response)
FoldPush(response) ==
    /\ responses' = Append(responses, response)
    /\ consumed' = consumed + 1
    /\ UNCHANGED << dpc, ret >>

\* Variant of FoldReturn that records the error and goes on folding, so that
\* a later failure replaces an earlier one.
FoldReturn_no_stop(e) ==
    /\ ret' = RetErr(e)
    /\ consumed' = consumed + 1
    /\ UNCHANGED << dpc, responses >>

\* return Err(e), also the way anyhow::bail! leaves the function.
FoldReturn(e) ==
    /\ ret' = RetErr(e)
    /\ dpc' = "returned"
    /\ consumed' = consumed + 1
    /\ UNCHANGED responses

\* Variant of FoldStep that drops a failed call and goes on with the next result.
FoldStep_skip_errors ==
    /\ dpc = "fold"
    /\ consumed < Len(results)
    /\ LET result == results[consumed + 1]
       IN  IF result.t = "OkOk"
           THEN FoldPush(result.v)
           ELSE IF result.t = "OkErr"
           THEN /\ consumed' = consumed + 1
                /\ UNCHANGED << responses, dpc, ret >>
           ELSE FoldReturn(Error("join", result.e.origin))
    /\ UNCHANGED << env, tasksteps, tasks, results >>

\* Variant of FoldStep that takes the default (empty) response for a task
\* that ended with a JoinError.
FoldStep_default_on_join_error ==
    /\ dpc = "fold"
    /\ consumed < Len(results)
    /\ LET result == results[consumed + 1]
       IN  IF result.t = "OkOk"
           THEN FoldPush(result.v)
           ELSE IF result.t = "OkErr"
           THEN FoldReturn(result.e)
           ELSE FoldPush("")
    /\ UNCHANGED << env, tasksteps, tasks, results >>

\* One iteration of `for result in results`: push a response, or return the
\* call's error, or bail with a join error naming the task's failure.
FoldStep ==
    /\ dpc = "fold"
    /\ consumed < Len(results)
    /\ LET result == results[consumed + 1]
       IN  IF result.t = "OkOk"
           THEN FoldPush(result.v)
           ELSE IF result.t = "OkErr"
           THEN FoldReturn(result.e)
           ELSE FoldReturn(Error("join", result.e.origin))
    /\ UNCHANGED << env, tasksteps, tasks, results >>

\* The loop consumed every result: Ok(responses).
FoldEnd ==
    /\ dpc = "fold"
    /\ consumed = Len(results)
    /\ ret' = RetOk(responses)
    /\ dpc' = "returned"
    /\ UNCHANGED << env, tasksteps, tasks, results, consumed, responses >>

Next ==
    \/ Spawn
    \/ AwaitJoin
    \/ JoinAll
    \/ FoldStep
    \/ FoldEnd
    \/ \E i \in Idx : TaskStart(i)
    \/ \E i \in Idx : ClientWake(i)
    \/ \E i \in Idx : ClientBuilt(i)
    \/ \E i \in Idx : SendDone(i)
    \/ \E i \in Idx : TextDone(i)

Spec == Init /\ [][Next]_vars

\* Fair scheduling: the runtime keeps polling every task that can make a step
\* and the thread inside block_on keeps running the dispatcher.
FairSpec ==
    /\ Spec
    /\ WF_vars(Spawn) /\ WF_vars(AwaitJoin) /\ WF_vars(JoinAll)
    /\ WF_vars(FoldStep) /\ WF_vars(FoldEnd)
    /\ \A i \in 1..MaxN :
          /\ WF_vars(i \in Idx /\ TaskStart(i))
          /\ WF_vars(i \in Idx /\ ClientWake(i))
          /\ WF_vars(i \in Idx /\ ClientBuilt(i))
          /\ WF_vars(i \in Idx /\ SendDone(i))
          /\ WF_vars(i \in Idx /\ TextDone(i))

\* Batches of two OpenAI calls that are each answered with a JSON document, of
\* any of the shapes of JsonKinds: the runs on which the extraction is decided.
InitExtract ==
    /\ prompts \in [1..2 -> Prompts]
    /\ provider \in { p \in Provider : p.variant = "OpenAI" }
    /\ remote \in [1..2 -> JsonKinds]
    /\ \E built \in BOOLEAN :
          /\ HTTP_CLIENT = IF built THEN OnceLockSet(1) ELSE OnceLockEmpty
          /\ clientBuilds = IF built THEN 1 ELSE 0
    /\ dpc = "spawn"
    /\ tasks = << >>
    /\ tpc = [i \in 1..2 |-> "unspawned"]
    /\ requests = [i \in 1..2 |-> << >>]
    /\ used = [i \in 1..2 |-> 0]
    /\ outcome = [i \in 1..2 |-> Pending]
    /\ completionOrder = << >>
    /\ results = << >>
    /\ consumed = 0
    /\ responses = << >>
    /\ ret = NotReturned

ExtractSpec == InitExtract /\ [][Next]_vars

\* ------------------------------------------------------------- properties
Returned == dpc = "returned"
Failed(i) == outcome[i].t \in {"OkErr", "JoinErr"}
FailedSet == { i \in Idx : Failed(i) }
\* The failing call with the smallest prompt index.
MinFailed == CHOOSE i \in FailedSet : \A j \in FailedSet : i <= j
\* The failing call that completed first in time.
FirstCompletedFailed ==
    completionOrder[CHOOSE k \in 1..Len(completionOrder) :
        /\ Failed(completionOrder[k])
        /\ \A h \in 1..(k - 1) : ~Failed(completionOrder[h])]
CallLevelKinds == {"transport", "decode", "extraction"}

\* C1 (order preservation): when the batch returns success, position i of the
\* returned list holds the text extracted from the response to the request
\* that carried prompts[i], whatever the order in which the tasks completed.
C1_OrderPreserved ==
    ret.t = "Ok" =>
        \A i \in Idx :
            /\ i <= Len(ret.v)
            /\ Len(requests[i]) = 1
            /\ requests[i][1].json.messages[1].content = prompts[i]
            /\ ret.v[i] = Answer(requests[i][1])
            /\ outcome[i] = OkOk(ret.v[i])

\* A success of two different prompts whose tasks completed in reverse order.
C1_Witness ==
    /\ ret.t = "Ok"
    /\ N = 2
    /\ prompts[1] # prompts[2]
    /\ completionOrder = << 2, 1 >>

\* C2 (all-or-nothing): once the call of some prompt has failed, the batch
\* never returns a list; when it returns, it returns an error and no list.
C2_AllOrNothing ==
    FailedSet # {} =>
        /\ ret.t # "Ok"
        /\ Returned => (ret.t = "Err" /\ ret.v = << >>)

\* An error returned although the response of an earlier prompt had already
\* been folded into the list.
C2_Witness ==
    /\ Returned
    /\ ret.t = "Err"
    /\ responses # << >>
    /\ \E i \in Idx : outcome[i].t = "OkOk"

\* C3 as stated (fail-fast on first completed failure): the error returned is
\* the error of the failing call that completed first in time.
C3_FirstCompletedFailure ==
    ret.t = "Err" => ret.e.origin = FirstCompletedFailed

\* C3 amended: the error returned is the error of the failing call with the
\* smallest prompt index, whatever the order of completion: that call's own
\* error when it returned one, a join error naming it when its task panicked.
C3_LowestIndexFailure ==
    ret.t = "Err" =>
        /\ FailedSet # {}
        /\ ret.e.origin = MinFailed
        /\ outcome[MinFailed].t = "OkErr" => ret.e = outcome[MinFailed].e
        /\ outcome[MinFailed].t = "JoinErr" => ret.e = Error("join", MinFailed)

\* Two failing calls, the one with the larger index completing first.
C3_Witness ==
    /\ ret.t = "Err"
    /\ Cardinality(FailedSet) = 2
    /\ FirstCompletedFailed # MinFailed

\* C4 (join before return, no cancellation): the dispatcher inspects outcomes
\* and returns only after every spawned task has completed with an output of
\* its own; no task of the batch is running when the batch returns.
C4_JoinBeforeReturn ==
    (dpc \in {"fold", "returned"} \/ ret # NotReturned) =>
        /\ Len(tasks) = N
        /\ \A i \in Idx : tpc[i] = "done" /\ outcome[i] # Pending
        /\ Len(completionOrder) = N

\* The batch returned an error of a call that failed before a sibling
\* completed; the sibling still ran to a successful completion.
C4_Witness ==
    /\ Returned
    /\ ret.t = "Err"
    /\ N = 2
    /\ Failed(completionOrder[1])
    /\ outcome[completionOrder[2]].t = "OkOk"

\* C5 (unsupported provider sends nothing): with the Anthropic variant no
\* request reaches the transport, no task obtains the client, and every call
\* that ended ended in failure.
C5_AnthropicSendsNothing ==
    provider.variant = "Anthropic" =>
        \A i \in Idx :
            /\ requests[i] = << >>
            /\ used[i] = 0
            /\ tpc[i] \in {"unspawned", "spawned", "done"}
            /\ tpc[i] = "done" => Failed(i)

\* A whole Anthropic batch of two prompts has returned.
C5_Witness ==
    /\ provider.variant = "Anthropic"
    /\ N = 2
    /\ Returned
    /\ \A i \in Idx : tpc[i] = "done"

\* C6 as stated (unsupported provider is its own error kind): a call with the
\* Anthropic variant ends with an UnsupportedProvider error returned as a value
\* of the call, and the batch returns that error, not a join error.
C6_UnsupportedProviderKind ==
    provider.variant = "Anthropic" =>
        /\ \A i \in Idx :
              tpc[i] = "done" =>
                  /\ outcome[i].t = "OkErr"
                  /\ outcome[i].e.kind = "UnsupportedProvider"
        /\ (Returned /\ N > 0) =>
              /\ ret.t = "Err"
              /\ ret.e.kind = "UnsupportedProvider"
              /\ ret.e.kind # "join"

\* C7 (transport singleton): at most one client is ever constructed, every
\* task that has a client has the instance stored in the cell, and a cell
\* that is set keeps its instance.
C7_TransportSingleton ==
    /\ [](/\ clientBuilds <= 1
          /\ HTTP_CLIENT.state = "set" => HTTP_CLIENT.client = 1
          /\ \A i \in Idx : used[i] # 0 =>
                /\ HTTP_CLIENT.state = "set"
                /\ used[i] = HTTP_CLIENT.client)
    /\ [][HTTP_CLIENT.state = "set" => HTTP_CLIENT' = HTTP_CLIENT]_vars

\* Two tasks raced on the first use: one ran the initializer and has the
\* client, the other is still blocked on the cell.
C7_Witness ==
    /\ N = 2
    /\ HTTP_CLIENT.state = "set"
    /\ \E i, j \in Idx : tpc[i] = "blocked" /\ used[j] = 1

\* C8 as stated (ConcurrencyFault propagation): when a task of the batch ended
\* by a panic, the batch returns an error of the join kind, distinct from the
\* call-level kinds.
C8_PanicGivesJoinError ==
    (Returned /\ \E i \in Idx : outcome[i].t = "JoinErr") =>
        /\ ret.t = "Err"
        /\ ret.e.kind = "join"
        /\ ret.e.kind \notin CallLevelKinds

\* C8 amended: when a task of the batch ended by a panic, the batch returns an
\* error and no list; the error is the join error, of a kind no call returns
\* as a value, exactly when no call with a smaller index than the first
\* panicked task returned a call-level error; otherwise it is that call's error.
C8_PanicGivesError ==
    (Returned /\ \E i \in Idx : outcome[i].t = "JoinErr") =>
        /\ ret.t = "Err"
        /\ ret.v = << >>
        /\ ret.e.kind = "join" <=> outcome[MinFailed].t = "JoinErr"
        /\ ret.e.kind # "join" =>
              /\ ret.e.kind \in CallLevelKinds
              /\ outcome[ret.e.origin].t = "OkErr"
        /\ \A i \in Idx : outcome[i].t = "OkErr" => outcome[i].e.kind \in CallLevelKinds

\* A panicked task next to a successful call: the batch returned the join error.
C8_Witness ==
    /\ Returned
    /\ provider.variant = "OpenAI"
    /\ ret.e.kind = "join"
    /\ \E i \in Idx : outcome[i].t = "OkOk"

\* C9 as stated (one request per prompt): when a batch with the OpenAI
\* provider has returned, exactly one POST was issued for each prompt index.
C9_ExactlyOnePerPrompt ==
    (Returned /\ provider.variant = "OpenAI") =>
        \A i \in Idx : Len(requests[i]) = 1

\* C9 amended: at most one POST is ever issued per prompt index, carrying that
\* prompt; with the OpenAI provider a task that has ended issued exactly one,
\* unless it panicked because the HTTP client could not be built, and then it
\* issued none.  A failed send, body or extraction is never followed by a
\* second request.
C9_AtMostOnePerPrompt ==
    \A i \in Idx :
        /\ Len(requests[i]) <= 1
        /\ \A k \in 1..Len(requests[i]) :
              requests[i][k] = Request(prompts[i], provider)
        /\ (tpc[i] = "done" /\ provider.variant = "OpenAI") =>
              (Len(requests[i]) = 1 <=> outcome[i].t # "JoinErr")
        /\ tpc[i] \in {"sending", "text"} => Len(requests[i]) = 1
        /\ tpc[i] \in {"unspawned", "spawned", "blocked", "init"} => requests[i] = << >>

\* A batch of two prompts returned after one call failed in transport and
\* the other in decoding or extraction; each index holds a single request.
C9_Witness ==
    /\ Returned
    /\ N = 2
    /\ provider.variant = "OpenAI"
    /\ \E i, j \in Idx :
          /\ outcome[i].e.kind = "transport"
          /\ outcome[j].e.kind \in {"decode", "extraction"}
    /\ \A i \in Idx : Len(requests[i]) = 1

\* Some request was handed to the transport and the remote side never answers it.
HungCall == \E i \in Idx : requests[i] # << >> /\ remote[i] = "hang"
AllAnswered == \A i \in Idx : remote[i] # "hang"

\* C10 (liveness without timeout): under fair scheduling a batch whose remote
\* calls all complete eventually returns; a batch with a remote call that
\* never completes never returns, even after another call has failed.
C10_ReturnsIffCallsComplete ==
    /\ AllAnswered ~> Returned
    /\ [](HungCall => (~Returned /\ ret = NotReturned))

\* The dispatcher waits in join_all for a hung call after a sibling failed.
C10_Witness ==
    /\ HungCall
    /\ dpc = "join"
    /\ \E i \in Idx : Failed(i)

\* C11 (fire-all-then-join): the handles are pushed in input order, a task is
\* unspawned exactly while its handle is not pushed, the dispatcher joins,
\* folds or returns only with all N handles pushed, and nothing gates a start:
\* the next spawn is possible whatever the tasks already spawned are doing,
\* and a spawned task can always make its first step.
C11_FireAllThenJoin ==
    /\ tasks = [k \in 1..Len(tasks) |-> k]
    /\ Len(tasks) <= N
    /\ \A i \in Idx : tpc[i] = "unspawned" <=> i > Len(tasks)
    /\ dpc = "spawn" => (results = << >> /\ consumed = 0 /\ ret = NotReturned)
    /\ dpc # "spawn" => Len(tasks) = N
    /\ (dpc = "spawn" /\ Len(tasks) < N) => ENABLED Spawn
    /\ \A i \in Idx : tpc[i] = "spawned" => ENABLED TaskStart(i)

\* Every call of a batch of the largest size is in flight at the same time,
\* before the dispatcher has even begun to await.
C11_Witness ==
    /\ N = MaxN
    /\ N >= 2
    /\ dpc = "spawn"
    /\ \A i \in Idx : tpc[i] \in {"sending", "text"}

\* C12 (length on success): a list returned as success has exactly as many
\* elements as the prompt vector.
C12_LengthOnSuccess ==
    ret.t = "Ok" => Len(ret.v) = Len(prompts)

\* A success of the largest batch.
C12_Witness ==
    /\ ret.t = "Ok"
    /\ N = MaxN
    /\ Len(ret.v) = MaxN

\* C13 (positional fold picks the error): the fold walks the task outputs in
\* input order; what it consumed before stopping were successes, pushed in
\* that order; it stops at the first non-success, whose position is the
\* smallest failing index, and returns that call's error unchanged, or a join
\* error for a task that panicked.
C13_PositionalFold ==
    dpc \in {"fold", "returned"} =>
        /\ results = [k \in 1..N |-> outcome[k]]
        /\ consumed <= N
        /\ ret.t # "Err" =>
              /\ \A k \in 1..consumed : results[k].t = "OkOk"
              /\ responses = [k \in 1..consumed |-> results[k].v]
        /\ ret.t = "Err" =>
              /\ Returned
              /\ consumed >= 1
              /\ \A k \in 1..(consumed - 1) : results[k].t = "OkOk"
              /\ results[consumed].t \in {"OkErr", "JoinErr"}
              /\ results[consumed].t = "OkErr" => ret.e = results[consumed].e
              /\ results[consumed].t = "JoinErr" => ret.e = Error("join", consumed)
              /\ \A j \in FailedSet : consumed <= j
        /\ (dpc = "fold" /\ FailedSet # {}) => consumed < MinFailed

\* A call error at index 1 and a panicked task at index 2 that completed
\* first: the fold stopped at index 1.
C13_Witness ==
    /\ Returned
    /\ N = 2
    /\ outcome[1].t = "OkErr"
    /\ outcome[2].t = "JoinErr"
    /\ completionOrder = << 2, 1 >>
    /\ consumed = 1
    /\ ret.e = outcome[1].e

\* The outcome the stages of a call give for a remote kind, in their order:
\* transport (send, then body), decode, extraction, success.
StagedOutcome(i) ==
    IF remote[i] \in {"sendFail", "textFail"} THEN OkErr(Error("transport", i))
    ELSE IF remote[i] = "notJson" THEN OkErr(Error("decode", i))
    ELSE IF remote[i] = "noChoices" THEN OkErr(Error("extraction", i))
    ELSE OkOk("re:" \o prompts[i])

\* C14 as stated (per-stage error kinds): a call with the OpenAI provider that
\* has ended ended in one of the four outcomes, the one its stages decide.
C14_FourOutcomes ==
    provider.variant = "OpenAI" =>
        \A i \in Idx : tpc[i] = "done" => outcome[i] = StagedOutcome(i)

\* C14 amended: a call with the OpenAI provider that handed its request to the
\* transport ends in exactly one of the four outcomes, decided in the order
\* transport, decode, extraction, success, and the body is read only after
\* the send succeeded; a call whose HTTP client could not be built ends by a
\* panic before any stage.
C14_StagedOutcomes ==
    provider.variant = "OpenAI" =>
        \A i \in Idx :
            /\ tpc[i] = "text" => remote[i] \notin {"sendFail", "hang"}
            /\ tpc[i] = "done" =>
                  IF requests[i] = << >>
                  THEN outcome[i] = JoinErr(i)
                  ELSE /\ outcome[i] = StagedOutcome(i)
                       /\ outcome[i].t = "OkErr" => outcome[i].e.kind \in CallLevelKinds
                       /\ remote[i] # "hang"

\* A batch whose two calls ended at different stages: one in decoding, the
\* other in extraction.
C14_Witness ==
    /\ provider.variant = "OpenAI"
    /\ N = 2
    /\ \A i \in Idx : tpc[i] = "done"
    /\ \E i, j \in Idx :
          /\ outcome[i] = OkErr(Error("decode", i))
          /\ outcome[j] = OkErr(Error("extraction", j))

\* Every segment of choices[0].message.content exists in value and the value
\* found there is a string.
HasContentString(value) ==
    /\ value.ty = "object"
    /\ "choices" \in DOMAIN value.val
    /\ value.val["choices"].ty = "array"
    /\ Len(value.val["choices"].val) >= 1
    /\ value.val["choices"].val[1].ty = "object"
    /\ "message" \in DOMAIN value.val["choices"].val[1].val
    /\ value.val["choices"].val[1].val["message"].ty = "object"
    /\ "content" \in DOMAIN value.val["choices"].val[1].val["message"].val
    /\ value.val["choices"].val[1].val["message"].val["content"].ty = "string"
ContentAt(value) == value.val["choices"].val[1].val["message"].val["content"].val

\* C15 (extraction correctness for OpenAI): a call answered with a JSON
\* document returns the string at choices[0].message.content when every
\* segment exists and the value is a string, and an extraction failure
\* otherwise; the literal hello body gives "hello", a body without choices
\* or with an empty choices array gives an extraction failure.
C15_ExtractionCorrect ==
    \A i \in Idx :
        (tpc[i] = "done" /\ requests[i] # << >> /\ remote[i] \in JsonKinds) =>
            LET value == JsonBody(remote[i], requests[i][1])
            IN  /\ IF HasContentString(value)
                   THEN outcome[i] = OkOk(ContentAt(value))
                   ELSE outcome[i] = OkErr(Error("extraction", i))
                /\ remote[i] = "hello" => outcome[i] = OkOk("hello")
                /\ remote[i] = "ok" => outcome[i] = OkOk("re:" \o prompts[i])
                /\ remote[i] \in {"noChoices", "emptyChoices", "contentNull",
                                  "contentNumber", "secondChoice"} =>
                       outcome[i] = OkErr(Error("extraction", i))

\* One call answered with the hello body, the other with an empty choices array.
C15_Witness ==
    /\ remote = << "hello", "emptyChoices" >>
    /\ outcome[1] = OkOk("hello")
    /\ outcome[2] = OkErr(Error("extraction", 2))

\* C16 (request shape, read-only descriptor): every request issued for index
\* i is a POST to the chat-completions endpoint with the bearer token of the
\* descriptor and the body {model, temperature 0.0, one user message with
\* prompts[i] verbatim}; requests of equal prompts are identical; and no step
\* changes the descriptor or the prompt vector.
C16_RequestShape ==
    /\ [](\A i \in Idx : \A k \in 1..Len(requests[i]) :
            /\ requests[i][k].url = "https://api.openai.com/v1/chat/completions"
            /\ requests[i][k].content_type = "application/json"
            /\ requests[i][k].authorization = "Bearer " \o provider.api_key
            /\ requests[i][k].json =
                  [model |-> provider.model_name,
                   temperature |-> 0,
                   messages |-> << [role |-> "user", content |-> prompts[i]] >>]
            /\ provider.variant = "OpenAI"
            /\ \A j \in Idx : \A h \in 1..Len(requests[j]) :
                  /\ requests[j][h].json.model = requests[i][k].json.model
                  /\ requests[j][h].authorization = requests[i][k].authorization
                  /\ prompts[i] = prompts[j] => requests[j][h] = requests[i][k])
    /\ [][provider' = provider /\ prompts' = prompts]_vars

\* Both requests of a batch of two equal prompts were issued, and the batch
\* has returned.
C16_Witness ==
    /\ N = 2
    /\ Returned
    /\ prompts[1] = prompts[2]
    /\ Len(requests[1]) = 1
    /\ Len(requests[2]) = 1

\* C17 (empty batch): with no prompt, whatever the provider variant, no task
\* is spawned, no request is issued, the HTTP client is not touched, the only
\* result ever returned is success with the empty list, and the dispatcher
\* can always go on until it has returned it.
C17_EmptyBatch ==
    N = 0 =>
        /\ tasks = << >>
        /\ completionOrder = << >>
        /\ DOMAIN requests = {}
        /\ HTTP_CLIENT.state # "running"
        /\ ret \in {NotReturned, RetOk(<< >>)}
        /\ Returned <=> ret = RetOk(<< >>)
        /\ Returned \/ ENABLED Next

\* An empty batch with the Anthropic variant has returned the empty list.
C17_Witness ==
    /\ N = 0
    /\ provider.variant = "Anthropic"
    /\ Returned
    /\ ret = RetOk(<< >>)

\* The output of the task of index i as given by the remote side alone: a
\* task abort where the task was made to abort, otherwise what the response
\* body, or the transport failure, of that index gives.
GivenOutcome(i) ==
    IF outcome[i].t = "JoinErr" THEN JoinErr(i) ELSE StagedOutcome(i)

\* What a sequential pass over the indexes k..N returns from the given
\* outcomes, acc being the answers of the indexes before k.
RECURSIVE SequentialResult(_, _)
SequentialResult(k, acc) ==
    IF k > N THEN RetOk(acc)
    ELSE IF GivenOutcome(k).t = "OkOk"
    THEN SequentialResult(k + 1, Append(acc, GivenOutcome(k).v))
    ELSE IF GivenOutcome(k).t = "OkErr"
    THEN RetErr(GivenOutcome(k).e)
    ELSE RetErr(Error("join", k))

\* C18 (schedule independence): what the batch returns is decided by the
\* prompts, the provider and the outcome given to each prompt index (response
\* body, transport failure or task abort) alone: it equals the result of a
\* sequential pass over the indexes, whatever the order in which the tasks
\* started, interleaved and completed.
C18_ScheduleIndependent ==
    Returned => ret = SequentialResult(1, << >>)

\* A batch returned after its two calls failed in different ways, the second
\* completing before the first.
C18_Witness ==
    /\ Returned
    /\ N = 2
    /\ completionOrder = << 2, 1 >>
    /\ Failed(1)
    /\ Failed(2)
    /\ outcome[1].e.kind # outcome[2].e.kind

====
